---- MODULE Spec2Model ----
(***************************************************************************)
(* quickstart.go: obtain an OAuth2 token (from the cache file, or from the *)
(* web and then cached), build a client, issue one Apps Script call and    *)
(* print the result.                                                       *)
(*                                                                         *)
(* The cache file is a sequence of JSON lexemes, each a pair <<key, value>>*)
(* (punctuation has an empty value), so that truncation, overwriting at    *)
(* offset 0 and decoding of the first JSON value are what the calls do.    *)
(***************************************************************************)
EXTENDS Naturals, Sequences, FiniteSets

VARIABLES
  pc,         \* pc[p]: the statement process p is at
  tok,        \* tok[p]: getClient's tok (line 27 / 29)
  file,       \* the cache file: [exists, data]
  canRead,    \* os.Open of an existing cache file succeeds
  canWrite,   \* os.OpenFile(O_RDWR|O_CREATE|O_TRUNC) succeeds
  hist,       \* hist[p]: the observable steps of p's current run, in order
  run,        \* run[p]: the number of p's current invocation (0: not started)
  encErr,     \* encErr[p]: the error Encode returned on line 89 (discarded)
  lastWriter, \* the process whose Encode wrote last (0: none yet)
  file0,      \* the cache file when the current invocation started
  rt          \* the save / load / save again sequence: [stage, t, err, loaded, saved]

vars == <<pc, tok, file, canRead, canWrite, hist, run, encErr, lastWriter, file0, rt>>

----------------------------------------------------------------------------
(* Bounds *)

MaxRuns == 2

AllProcs == {1, 2}

----------------------------------------------------------------------------
(* oauth2.Token and its JSON form *)

ZeroTime == "0001-01-01T00:00:00Z"

AccessTokens == {"a1", "a2"}
TokenTypes == {"", "Bearer"}
RefreshTokens == {"", "r1"}
Expiries == {ZeroTime, "2016-06-01T00:00:00Z"}

Tokens == [AccessToken : AccessTokens, TokenType : TokenTypes,
           RefreshToken : RefreshTokens, Expiry : Expiries]

ZeroToken == [AccessToken |-> "", TokenType |-> "", RefreshToken |-> "",
              Expiry |-> ZeroTime]

NilToken == [AccessToken |-> "<nil>", TokenType |-> "<nil>",
             RefreshToken |-> "<nil>", Expiry |-> "<nil>"]

\* time.Time's MarshalJSON refuses a year outside [0, 9999]: Encode then
\* returns the error and writes nothing.
FarTime == "10000-01-01T00:00:00Z"

Marshalable(t) == t.Expiry # FarTime

\* A field tagged omitempty is left out when it is the empty string.
\* Expiry is a struct (time.Time): omitempty never leaves it out.
OmitEmpty(k, v) == IF v = "" THEN <<>> ELSE << <<k, v>> >>

\* json.NewEncoder(f).Encode(token): the object, then a newline.
Encode(t) ==
  << <<"{", "">>, <<"access_token", t.AccessToken>> >>
    \o OmitEmpty("token_type", t.TokenType)
    \o OmitEmpty("refresh_token", t.RefreshToken)
    \o << <<"expiry", t.Expiry>>, <<"}", "">>, <<"\n", "">> >>

\* One member of the object: a known key sets its field, any other is ignored.
SetField(t, k, v) ==
  CASE k = "access_token"  -> [t EXCEPT !.AccessToken = v]
    [] k = "token_type"    -> [t EXCEPT !.TokenType = v]
    [] k = "refresh_token" -> [t EXCEPT !.RefreshToken = v]
    [] k = "expiry"        -> [t EXCEPT !.Expiry = v]
    [] OTHER               -> t

Punctuation == {"{", "}", "\n", "null", "#"}

RECURSIVE DecodeObject(_, _, _)
DecodeObject(data, i, t) ==
  IF i > Len(data) THEN [err |-> TRUE, tok |-> NilToken]
  ELSE IF data[i][1] = "}" THEN [err |-> FALSE, tok |-> t]
  ELSE IF data[i][1] \in Punctuation THEN [err |-> TRUE, tok |-> NilToken]
  ELSE DecodeObject(data, i + 1, SetField(t, data[i][1], data[i][2]))

\* json.NewDecoder(f).Decode(t), t a zero Token: white space is skipped, the
\* first JSON value is decoded, and nothing after it is looked at.
RECURSIVE DecodeFrom(_, _)
DecodeFrom(data, i) ==
  IF i > Len(data) THEN [err |-> TRUE, tok |-> NilToken]
  ELSE IF data[i][1] = "\n" THEN DecodeFrom(data, i + 1)
  ELSE IF data[i][1] = "null" THEN [err |-> FALSE, tok |-> ZeroToken]
  ELSE IF data[i][1] = "{" THEN DecodeObject(data, i + 1, ZeroToken)
  ELSE [err |-> TRUE, tok |-> NilToken]

Decode(data) == DecodeFrom(data, 1)

----------------------------------------------------------------------------
(* The cache file *)

StaleToken == [AccessToken |-> "a0", TokenType |-> "Bearer",
               RefreshToken |-> "r0", Expiry |-> "2016-06-01T00:00:00Z"]

\* A stale cache of an older layout: longer than any encoding of a Token.
LongStale ==
  << <<"{", "">>, <<"access_token", "a0">>, <<"token_type", "Bearer">>,
     <<"refresh_token", "r0">>, <<"expiry", "2016-06-01T00:00:00Z">>,
     <<"scope", "drive">>, <<"}", "">>, <<"\n", "">> >>

InitData ==
  { <<>>,                                   \* empty
    << <<"#", "">> >>,                      \* not JSON
    << <<"null", "">>, <<"\n", "">> >>,     \* JSON null
    SubSeq(Encode(StaleToken), 1, 3),       \* cut short
    Encode(StaleToken),
    Encode(StaleToken) \o << <<"#", "">> >>,
    LongStale }

InitFiles ==
  {[exists |-> FALSE, data |-> <<>>]} \cup {[exists |-> TRUE, data |-> d] : d \in InitData}

\* os.Open(file) fails when the file is absent or cannot be read.
OpenFails(f, readable) == ~f.exists \/ ~readable

\* tokenFromFile (lines 69-78) on a file nobody writes meanwhile.
tokenFromFile(f, readable) ==
  IF OpenFails(f, readable) THEN [err |-> TRUE, tok |-> NilToken]
  ELSE Decode(f.data)

\* Mutant of OpenFile: O_TRUNC left out.
OpenFileNoTrunc(f) == [exists |-> TRUE, data |-> f.data]

\* The numbers of bytes Encode(t) may get into the file: all of them, fewer
\* when the write fails, none when the token cannot be marshalled.
WrittenLens(t) == IF Marshalable(t) THEN 0..Len(Encode(t)) ELSE {0}

\* os.OpenFile(file, O_RDWR|O_CREATE|O_TRUNC, 0600): created if absent, emptied.
OpenFile(f) == [exists |-> TRUE, data |-> <<>>]

\* Mutant of Write: the descriptor opened with O_APPEND.
WriteAppend(data, b, n) == data \o SubSeq(b, 1, n)

\* Write of b through a descriptor at offset 0, of which n bytes get written:
\* what the file held beyond them stays.
Write(data, b, n) == SubSeq(b, 1, n) \o SubSeq(data, n + 1, Len(data))

----------------------------------------------------------------------------
(* Steps of one process *)

Append1(p, e) == [hist EXCEPT ![p] = Append(@, e)]
Append2(p, e1, e2) == [hist EXCEPT ![p] = Append(Append(@, e1), e2)]
Append3(p, e1, e2, e3) == [hist EXCEPT ![p] = Append(Append(Append(@, e1), e2), e3)]

Goto(p, l) == pc' = [pc EXCEPT ![p] = l]

\* log.Fatalf: the message is printed and the process exits with status 1.
Fatalf(p, h) ==
  /\ pc' = [pc EXCEPT ![p] = "fatal"]
  /\ hist' = [h EXCEPT ![p] = Append(@, "fatal")]

\* main, lines 95-98
main_ReadFile(p) ==
  /\ pc[p] = "ReadFile"
  /\ \E ok \in BOOLEAN :
       IF ok THEN Goto(p, "ConfigFromJSON") /\ UNCHANGED hist
       ELSE Fatalf(p, hist)
  /\ UNCHANGED <<tok, file, canRead, canWrite, run, encErr, lastWriter, file0, rt>>

\* main, lines 102-107
main_ConfigFromJSON(p) ==
  /\ pc[p] = "ConfigFromJSON"
  /\ \E ok \in BOOLEAN :
       IF ok THEN Goto(p, "tokenCacheFile") /\ UNCHANGED hist
       ELSE Fatalf(p, hist)
  /\ UNCHANGED <<tok, file, canRead, canWrite, run, encErr, lastWriter, file0, rt>>

\* getClient, lines 23-26, with tokenCacheFile, lines 56-65
getClient_tokenCacheFile(p) ==
  /\ pc[p] = "tokenCacheFile"
  /\ \E ok \in BOOLEAN :
       IF ok THEN Goto(p, "tokenFromFile") /\ UNCHANGED hist
       ELSE Fatalf(p, hist)
  /\ UNCHANGED <<tok, file, canRead, canWrite, run, encErr, lastWriter, file0, rt>>

\* Mutants of AfterRead: the error is not looked at.
AfterReadAlwaysWeb(err) == "AuthCodeURL"
AfterReadAlwaysClient(err) == "New"

\* getClient, lines 28-32: the branch on tokenFromFile's error.
AfterRead(err) == IF err THEN "AuthCodeURL" ELSE "New"

\* tokenFromFile, lines 70-73
tokenFromFile_Open(p) ==
  /\ pc[p] = "tokenFromFile"
  /\ hist' = Append1(p, "read")
  /\ IF OpenFails(file, canRead) THEN Goto(p, AfterRead(TRUE))
     ELSE Goto(p, "Decode")
  /\ UNCHANGED <<tok, file, canRead, canWrite, run, encErr, lastWriter, file0, rt>>

\* tokenFromFile, lines 74-77, and getClient, lines 27-28
tokenFromFile_Decode(p) ==
  /\ pc[p] = "Decode"
  /\ LET r == Decode(file.data) IN
       /\ tok' = [tok EXCEPT ![p] = r.tok]
       /\ Goto(p, AfterRead(r.err))
  /\ UNCHANGED <<file, canRead, canWrite, hist, run, encErr, lastWriter, file0, rt>>

\* getTokenFromWeb, lines 38-40
getTokenFromWeb_AuthCodeURL(p) ==
  /\ pc[p] = "AuthCodeURL"
  /\ hist' = Append1(p, "prompt")
  /\ Goto(p, "Scan")
  /\ UNCHANGED <<tok, file, canRead, canWrite, run, encErr, lastWriter, file0, rt>>

\* Mutant of ScanErr: the user is asked again.
ScanErrPromptsAgain(p) ==
  /\ Goto(p, "AuthCodeURL")
  /\ UNCHANGED hist

\* getTokenFromWeb, lines 43-45: fmt.Scan failed
ScanErr(p) == Fatalf(p, hist)

\* getTokenFromWeb, lines 42-45
getTokenFromWeb_Scan(p) ==
  /\ pc[p] = "Scan"
  /\ \E ok \in BOOLEAN :
       IF ok THEN Goto(p, "Exchange") /\ hist' = Append1(p, "scan")
       ELSE ScanErr(p)
  /\ UNCHANGED <<tok, file, canRead, canWrite, run, encErr, lastWriter, file0, rt>>

\* The tokens the authorization server may issue to p: any, and to two
\* processes running at the same time two different access tokens.
Issued(p) ==
  IF \A q \in AllProcs \ {p} : run[q] = 0 THEN Tokens
  ELSE {t \in Tokens : t.AccessToken = (IF p = 1 THEN "a1" ELSE "a2")}

\* Mutant of ExchangeErr: the error is only logged, and the nil token is saved.
ExchangeErrGoesOn(p) ==
  /\ Goto(p, "OpenFile")
  /\ hist' = Append1(p, "exchange")
  /\ UNCHANGED tok

\* getTokenFromWeb, lines 48-50: config.Exchange failed
ExchangeErr(p) ==
  /\ Fatalf(p, Append1(p, "exchange"))
  /\ UNCHANGED tok

\* getTokenFromWeb, lines 47-51, and getClient, line 29
getTokenFromWeb_Exchange(p) ==
  /\ pc[p] = "Exchange"
  /\ \/ \E t \in Issued(p) :
          /\ tok' = [tok EXCEPT ![p] = t]
          /\ hist' = Append1(p, "exchange")
          /\ Goto(p, "OpenFile")
     \/ ExchangeErr(p)
  /\ UNCHANGED <<file, canRead, canWrite, run, encErr, lastWriter, file0, rt>>

\* saveToken, lines 83-88
saveToken_OpenFile(p) ==
  /\ pc[p] = "OpenFile"
  /\ IF canWrite
       THEN /\ file' = OpenFile(file)
            /\ hist' = Append2(p, "saving", "trunc")
            /\ Goto(p, "Encode")
       ELSE /\ Fatalf(p, Append1(p, "saving"))
            /\ UNCHANGED file
  /\ UNCHANGED <<tok, canRead, canWrite, run, encErr, lastWriter, file0, rt>>

\* saveToken, lines 89-90, and getClient, lines 30-32: Encode's error is
\* dropped, saveToken returns and getClient goes on.
EncodeReturn(p, failed) == Goto(p, "New") /\ hist' = Append1(p, "write")

\* saveToken, line 89: Encode marshals the token and writes it in one Write;
\* n is the number of bytes that reach the file (all of them, or an error).
saveToken_Encode(p) ==
  /\ pc[p] = "Encode"
  /\ \E n \in WrittenLens(tok[p]) :
       /\ file' = [file EXCEPT !.data = Write(@, Encode(tok[p]), n)]
       /\ encErr' = [encErr EXCEPT ![p] = (n < Len(Encode(tok[p])))]
       /\ EncodeReturn(p, n < Len(Encode(tok[p])))
  /\ lastWriter' = p
  /\ UNCHANGED <<tok, canRead, canWrite, run, file0, rt>>

\* main, lines 119-123: the call failed before the script started executing
RunErr(p) == Fatalf(p, Append2(p, "call", "transport_err"))

\* Mutant of ScriptError: the script's error ends the process like a failed call.
ScriptErrorFatal(p) == Fatalf(p, Append3(p, "call", "script_err", "print_error"))

\* main, lines 119 and 125-126: the script ran and returned an error, which is
\* printed; main goes on to its end
ScriptError(p) ==
  /\ Goto(p, "done")
  /\ hist' = Append3(p, "call", "script_err", "print_error")

\* main, lines 119 and 144-151: the script's result is printed
ScriptResult(p) ==
  /\ Goto(p, "done")
  /\ hist' = Append3(p, "call", "ok", "print_result")

\* main, lines 110-113
main_New(p) ==
  /\ pc[p] = "New"
  /\ \E ok \in BOOLEAN :
       IF ok THEN Goto(p, "Run") /\ UNCHANGED hist
       ELSE Fatalf(p, hist)
  /\ UNCHANGED <<tok, file, canRead, canWrite, run, encErr, lastWriter, file0, rt>>

\* main, lines 116-163
main_Run(p) ==
  /\ pc[p] = "Run"
  /\ \/ RunErr(p)
     \/ ScriptError(p)
     \/ ScriptResult(p)
  /\ UNCHANGED <<tok, file, canRead, canWrite, run, encErr, lastWriter, file0, rt>>

\* The program is started again after it has exited: main, from line 92.
main_Invoke(p) ==
  /\ pc[p] \in {"done", "fatal"}
  /\ run[p] < MaxRuns
  /\ pc' = [pc EXCEPT ![p] = "ReadFile"]
  /\ tok' = [tok EXCEPT ![p] = NilToken]
  /\ hist' = [hist EXCEPT ![p] = <<>>]
  /\ run' = [run EXCEPT ![p] = @ + 1]
  /\ encErr' = [encErr EXCEPT ![p] = FALSE]
  /\ file0' = file
  /\ UNCHANGED <<file, canRead, canWrite, lastWriter, rt>>

Step(p) ==
  \/ main_ReadFile(p)
  \/ main_ConfigFromJSON(p)
  \/ getClient_tokenCacheFile(p)
  \/ tokenFromFile_Open(p)
  \/ tokenFromFile_Decode(p)
  \/ getTokenFromWeb_AuthCodeURL(p)
  \/ getTokenFromWeb_Scan(p)
  \/ getTokenFromWeb_Exchange(p)
  \/ saveToken_OpenFile(p)
  \/ saveToken_Encode(p)
  \/ main_New(p)
  \/ main_Run(p)

----------------------------------------------------------------------------
(* One process, started up to MaxRuns times one after the other *)

RtOff == [stage |-> "off", t |-> NilToken, err |-> FALSE, loaded |-> NilToken,
          saved |-> <<>>]

InitProcs(started) ==
  /\ pc = [p \in AllProcs |-> IF p \in started THEN "ReadFile" ELSE "off"]
  /\ tok = [p \in AllProcs |-> NilToken]
  /\ file \in InitFiles
  /\ canRead \in BOOLEAN
  /\ canWrite \in BOOLEAN
  /\ hist = [p \in AllProcs |-> <<>>]
  /\ run = [p \in AllProcs |-> IF p \in started THEN 1 ELSE 0]
  /\ encErr = [p \in AllProcs |-> FALSE]
  /\ lastWriter = 0
  /\ file0 = file
  /\ rt = RtOff

Init == InitProcs({1})

Next == Step(1) \/ main_Invoke(1)

Spec == Init /\ [][Next]_vars

----------------------------------------------------------------------------
(* Two processes started at the same time on the same cache path *)

InitRace == InitProcs({1, 2})

NextRace == \E p \in AllProcs : Step(p)

SpecRace == InitRace /\ [][NextRace]_vars

----------------------------------------------------------------------------
(* saveToken, then tokenFromFile, then saveToken of what was loaded, by one
   process on a cache file nobody else writes *)

FarToken == [AccessToken |-> "a1", TokenType |-> "Bearer", RefreshToken |-> "r1",
             Expiry |-> FarTime]

RtTokens == Tokens \cup {ZeroToken, StaleToken, FarToken}

\* saveToken (lines 82-90) when OpenFile succeeds and n bytes get written.
saveTokenWrites(f, t, n) == [OpenFile(f) EXCEPT !.data = Write(@, Encode(t), n)]

InitRT ==
  /\ pc = [p \in AllProcs |-> "off"]
  /\ tok = [p \in AllProcs |-> NilToken]
  /\ file \in InitFiles
  /\ canRead \in BOOLEAN
  /\ canWrite \in BOOLEAN
  /\ hist = [p \in AllProcs |-> <<>>]
  /\ run = [p \in AllProcs |-> 0]
  /\ encErr = [p \in AllProcs |-> FALSE]
  /\ lastWriter = 0
  /\ file0 = file
  /\ \E t \in RtTokens : rt = [RtOff EXCEPT !.stage = "start", !.t = t]

\* saveToken(file, t), lines 82-90
rt_saveToken ==
  /\ rt.stage = "start"
  /\ IF canWrite
       THEN \E n \in WrittenLens(rt.t) :
              /\ file' = saveTokenWrites(file, rt.t, n)
              /\ encErr' = [encErr EXCEPT ![1] = (n < Len(Encode(rt.t)))]
              /\ rt' = [rt EXCEPT !.stage = "saved", !.saved = file'.data]
       ELSE /\ rt' = [rt EXCEPT !.stage = "fatal"]
            /\ UNCHANGED <<file, encErr>>
  /\ UNCHANGED <<pc, tok, canRead, canWrite, hist, run, lastWriter, file0>>

\* tokenFromFile(file), lines 69-78
rt_tokenFromFile ==
  /\ rt.stage = "saved"
  /\ LET r == tokenFromFile(file, canRead) IN
       rt' = [rt EXCEPT !.stage = "loaded", !.err = r.err, !.loaded = r.tok]
  /\ UNCHANGED <<pc, tok, file, canRead, canWrite, hist, run, encErr, lastWriter, file0>>

\* saveToken(file, loaded), lines 82-90
rt_saveAgain ==
  /\ rt.stage = "loaded"
  /\ ~rt.err
  /\ canWrite
  /\ \E n \in WrittenLens(rt.loaded) :
       /\ file' = saveTokenWrites(file, rt.loaded, n)
       /\ encErr' = [encErr EXCEPT ![2] = (n < Len(Encode(rt.loaded)))]
  /\ rt' = [rt EXCEPT !.stage = "resaved"]
  /\ UNCHANGED <<pc, tok, canRead, canWrite, hist, run, lastWriter, file0>>

NextRT == rt_saveToken \/ rt_tokenFromFile \/ rt_saveAgain

SpecRT == InitRT /\ [][NextRT]_vars

----------------------------------------------------------------------------
(* Vocabulary of the claims *)

Has(h, e) == \E i \in 1..Len(h) : h[i] = e
Count(h, e) == Cardinality({i \in 1..Len(h) : h[i] = e})

\* The cache file as the run's tokenFromFile finds it, when nobody else writes.
HitAtRead == ~OpenFails(file0, canRead) /\ ~Decode(file0.data).err
MissAtRead == OpenFails(file0, canRead) \/ Decode(file0.data).err

\* getClient has just returned to main (line 107).
Returned(p) == pc[p] = "New"

\* The run is past getClient's call of tokenFromFile.
PastRead(p) == Has(hist[p], "read") /\ pc[p] \notin {"tokenFromFile", "Decode"}

\* p writes no more: getClient is over, or the process has ended.
Finished(p) == pc[p] \in {"New", "Run", "done", "fatal"}

Other(p) == 3 - p

----------------------------------------------------------------------------
\* C1: in a single process, whenever getClient returns normally the cache file
\* exists and holds (decodes to) exactly the credential that was returned.
C1_CacheHoldsReturned ==
  Returned(1) => /\ file.exists
                 /\ Decode(file.data) = [err |-> FALSE, tok |-> tok[1]]

\* C2: when the cache file opens and deserializes at the read, the run takes
\* no step of the interactive flow (no URL printed, no input read, no
\* exchange, no save), and getClient returns the stored credential as it is,
\* whatever its expiry.
C2_CacheHitSkipsNetwork ==
  (HitAtRead /\ PastRead(1)) =>
     /\ ~Has(hist[1], "prompt")
     /\ ~Has(hist[1], "scan")
     /\ ~Has(hist[1], "exchange")
     /\ pc[1] \in {"New", "Run", "done", "fatal"}
     /\ tok[1] = Decode(file0.data).tok
     /\ file = file0

C2_Witness ==
  /\ HitAtRead
  /\ Returned(1)
  /\ tok[1] = StaleToken
  /\ tok[1].Expiry # ZeroTime

\* C3: when the cache file is absent, unreadable or does not deserialize, the
\* step after the read is the printing of the authorization URL (never the
\* end of the process), then the process waits for the code, and the exchange
\* comes only after the code was read.
C3_CacheMissInteractive ==
  (MissAtRead /\ PastRead(1)) =>
     LET h == hist[1] IN
       /\ h[1] = "read"
       /\ Len(h) = 1 => pc[1] = "AuthCodeURL"
       /\ Len(h) >= 2 => h[2] = "prompt"
       /\ Len(h) = 2 => pc[1] = "Scan"
       /\ Len(h) >= 3 => h[3] \in {"scan", "fatal"}
       /\ Has(h, "exchange") => (h[3] = "scan" /\ h[4] = "exchange")
       /\ pc[1] \in {"Exchange", "OpenFile", "Encode"} => Has(h, "scan")

C3_Witness ==
  /\ file0.exists /\ canRead /\ Decode(file0.data).err
  /\ pc[1] = "Exchange"
  /\ hist[1] = <<"read", "prompt", "scan">>

\* config.Exchange returned an error: the call was made and tok is still nil.
ExchangeFailed(p) == Has(hist[p], "exchange") /\ tok[p] = NilToken

\* fmt.Scan returned an error: the URL was printed, no code was read, and the
\* process no longer waits for one.
ScanFailed(p) == Has(hist[p], "prompt") /\ ~Has(hist[p], "scan") /\ pc[p] # "Scan"

\* C4: after a failed exchange, or a failed read of the code, the process has
\* ended: the cache file is as it was (not created, not changed), no remote
\* call was made and the user was prompted once.
C4_FatalOnBadCode ==
  (ExchangeFailed(1) \/ ScanFailed(1)) =>
     /\ pc[1] = "fatal"
     /\ file = file0
     /\ ~Has(hist[1], "trunc")
     /\ ~Has(hist[1], "write")
     /\ ~Has(hist[1], "call")
     /\ Count(hist[1], "prompt") = 1

C4_Witness ==
  /\ ExchangeFailed(1)
  /\ pc[1] = "fatal"
  /\ file0.exists /\ file0.data = Encode(StaleToken) /\ ~canRead

\* C5: a failure to persist the new credential, at the opening of the file or
\* at the writing of the credential, ends the process: getClient does not
\* return and no remote call is made.
C5_PersistFailureFatal ==
  encErr[1] => (pc[1] = "fatal" /\ ~Has(hist[1], "call") /\ ~Returned(1))

C7_RemoteErrors ==
  LET h == hist[1] IN
    /\ Has(h, "script_err") =>
         /\ pc[1] = "done"
         /\ Has(h, "print_error")
         /\ ~Has(h, "print_result")
         /\ ~Has(h, "fatal")
         /\ Count(h, "call") = 1
    /\ Has(h, "transport_err") =>
         /\ pc[1] = "fatal"
         /\ h[Len(h)] = "fatal"
         /\ ~Has(h, "print_error")
         /\ ~Has(h, "print_result")
         /\ Count(h, "call") = 1

C7_Witness ==
  /\ pc[1] = "done"
  /\ Has(hist[1], "script_err")
  /\ Has(hist[1], "print_error")

\* C8: for every credential t, saveToken(path, t) and then tokenFromFile(path)
\* (of a readable file) gives no error and a credential equal to t, and
\* saving what was loaded again leaves the file as the first save left it.
C8_RoundTrip ==
  /\ (rt.stage \in {"loaded", "resaved"} /\ canRead) => (~rt.err /\ rt.loaded = rt.t)
  /\ rt.stage = "resaved" => file.data = rt.saved

\* C9 as claimed: once two concurrent processes have both written (in full),
\* the cache file is exactly the serialization of the credential of the one
\* that wrote last.
C9_LastWriterWholeFile ==
  (/\ Finished(1) /\ Finished(2)
   /\ Has(hist[1], "write") /\ Has(hist[2], "write")
   /\ ~encErr[1] /\ ~encErr[2])
  => file.data = Encode(tok[lastWriter])

\* C9 as amended: once both processes have finished and the write that came
\* last was carried out in full, the cache file begins with the whole
\* serialization of the last writer's credential and tokenFromFile gives that
\* credential; behind it the file holds nothing, or the tail of what the other
\* process wrote. A process that finds a credential in the cache while the
\* other one writes gets one whole credential: the one of the initial file or
\* the one of the other process.
C9_LastWriterPrefix ==
  /\ (Finished(1) /\ Finished(2) /\ lastWriter # 0 /\ ~encErr[lastWriter]) =>
       LET b == Encode(tok[lastWriter])
           q == Other(lastWriter)
       IN /\ Len(file.data) >= Len(b)
          /\ SubSeq(file.data, 1, Len(b)) = b
          /\ Decode(file.data) = [err |-> FALSE, tok |-> tok[lastWriter]]
          /\ \/ file.data = b
             \/ /\ Has(hist[q], "write")
                /\ \E n \in 0..Len(Encode(tok[q])) :
                     file.data = Write(SubSeq(Encode(tok[q]), 1, n), b, Len(b))
  /\ \A p \in AllProcs :
       (Finished(p) /\ PastRead(p) /\ ~Has(hist[p], "prompt")) =>
          \/ tok[p] = Decode(file0.data).tok
          \/ Has(hist[Other(p)], "trunc") /\ tok[p] = tok[Other(p)]

\* Both processes missed an absent cache, both wrote in full, and the file is
\* longer than the last writer's serialization.
C9_Witness ==
  /\ Finished(1) /\ Finished(2)
  /\ ~file0.exists
  /\ Has(hist[1], "write") /\ Has(hist[2], "write")
  /\ ~encErr[1] /\ ~encErr[2]
  /\ lastWriter = 2
  /\ Len(file.data) > Len(Encode(tok[2]))

Rank(e) ==
  CASE e = "read" -> 1
    [] e = "prompt" -> 2
    [] e = "scan" -> 3
    [] e = "exchange" -> 4
    [] e = "saving" -> 5
    [] e = "trunc" -> 6
    [] e = "write" -> 7
    [] e = "call" -> 8
    [] e \in {"transport_err", "script_err", "ok"} -> 9
    [] e \in {"print_error", "print_result"} -> 10
    [] e = "fatal" -> 11

\* C10: in a run each of the cache read, the prompt, the reading of the code,
\* the exchange, the cache write and the remote call happens at most once and
\* in that order; the remote call comes only with a credential obtained from
\* the cache or from the exchange, the cache write only after a successful
\* exchange, and a fatal error is the last step of the run.
C10_SingleShot ==
  LET h == hist[1] IN
    /\ \A i \in 1..Len(h) : \A j \in 1..Len(h) : i < j => Rank(h[i]) < Rank(h[j])
    /\ Has(h, "call") =>
         /\ Has(h, "read")
         /\ tok[1] # NilToken
         /\ \/ Has(h, "exchange") /\ tok[1] \in Tokens
            \/ HitAtRead /\ tok[1] = Decode(file0.data).tok
    /\ (Has(h, "trunc") \/ Has(h, "write")) => (Has(h, "exchange") /\ tok[1] \in Tokens)
    /\ Has(h, "fatal") => (pc[1] = "fatal" /\ h[Len(h)] = "fatal")
    /\ pc[1] \in {"done", "fatal"} => ~ENABLED Step(1)

C10_Witness ==
  /\ pc[1] = "done"
  /\ hist[1] = <<"read", "prompt", "scan", "exchange", "saving", "trunc", "write",
                 "call", "ok", "print_result">>

====
